---- MODULE Spec2Model ----
(***************************************************************************)
(* LoRa airtime / compliance calculator (src/src/App.jsx).                 *)
(*                                                                         *)
(* The component's React state is the state of the model; the values the   *)
(* component body derives on every render (airtime, duty cycle, energy,    *)
(* compliance, warnings) are kept in `view`.                               *)
(*                                                                         *)
(* Two specifications:                                                     *)
(*   Spec      the mounted component: event handlers and effects, from the *)
(*             useState defaults;                                          *)
(*   CalcSpec  one run of the component body on a parameter set drawn from *)
(*             bounded sets (also values the widgets cannot produce: TX    *)
(*             interval 0, TX powers off the table, any manual LDRO flag). *)
(*                                                                         *)
(* Numbers.  The code computes in IEEE doubles; the model computes the     *)
(* same expressions exactly:                                               *)
(*   - a time in milliseconds is an integer count of Tick = 0.032 ms       *)
(*     (every airtime is a multiple of 2^6/2000 ms because SF >= 6 and     *)
(*     the bandwidth is 125, 250 or 500 kHz);                              *)
(*   - every other real is a normalised fraction [n |-> _, d |-> _];       *)
(*   - voltage is held in tenths of a volt and the TX interval in half     *)
(*     minutes (the steps of their input widgets).                         *)
(***************************************************************************)
EXTENDS Integers, Sequences, FiniteSets, TLC

VARIABLES region, preset, sf, bw, payload, cr, preamble, crc, explicitHeader,
          txPower, voltage, txIntervalMin, euBand, battCapacity, ldrManual,
          depPreset, depRegion, depLdrRequired, view

inputs == <<region, preset, sf, bw, payload, cr, preamble, crc, explicitHeader,
            txPower, voltage, txIntervalMin, euBand, battCapacity, ldrManual>>
deps == <<depPreset, depRegion, depLdrRequired>>
vars == <<inputs, deps, view>>

----------------------------------------------------------------------------
(* Exact arithmetic *)

RECURSIVE Gcd(_, _)
Gcd(a, b) == IF b = 0 THEN a ELSE Gcd(b, a % b)

Abs(x) == IF x < 0 THEN -x ELSE x

\* The fraction n/d in lowest terms with a denominator >= 0 (1/0 is Infinity).
Frac(n, d) ==
  LET g == Gcd(Abs(n), Abs(d))
      s == IF d < 0 THEN -1 ELSE 1
  IN  IF n = 0 THEN [n |-> 0, d |-> 1] ELSE [n |-> (s * n) \div g, d |-> (s * d) \div g]

\* a * b, cancelling across before multiplying.
FMul(a, b) ==
  LET g1 == Gcd(Abs(a.n), b.d)
      g2 == Gcd(Abs(b.n), a.d)
  IN  IF a.n = 0 \/ b.n = 0 THEN [n |-> 0, d |-> 1]
      ELSE [n |-> (a.n \div g1) * (b.n \div g2), d |-> (a.d \div g2) * (b.d \div g1)]

\* a / b.
FDiv(a, b) == FMul(a, Frac(b.d, b.n))

FLe(a, b) == a.n * b.d <= b.n * a.d

Zero == Frac(0, 1)

\* Math.ceil(a / b) and Math.floor(a / b) for integers a and b > 0.
Ceil(a, b)  == -((-a) \div b)
Floor(a, b) == a \div b

Max(a, b) == IF a >= b THEN a ELSE b

RECURSIVE Pow2(_)
Pow2(n) == IF n = 0 THEN 1 ELSE 2 * Pow2(n - 1)

\* A duration given in milliseconds, in ticks of 0.032 ms (ms * 125 / 4).
Ms(x) == (x * 125) \div 4

----------------------------------------------------------------------------
(* LoRa airtime formula *)

\* IH without the SF6 override.
ImplicitHeader_NoSf6(a) == IF ~a.explicitHeader THEN 1 ELSE 0

\* IH of calcAirtime: 1 for implicit header.
ImplicitHeader(a) == IF a.sf = 6 \/ ~a.explicitHeader THEN 1 ELSE 0

\* payload_sym_nb with the payload term subtracted from the 8 fixed symbols.
PayloadSymNb_Minus(a) ==
  LET DE    == IF a.lowDROptimize THEN 1 ELSE 0
      IH    == IF a.sf = 6 \/ ~a.explicitHeader THEN 1 ELSE 0
      CRC   == IF a.crc THEN 1 ELSE 0
      inner == 8 * a.payloadBytes - 4 * a.sf + 28 + 16 * CRC - 20 * IH
  IN  8 - Max(Ceil(inner, 4 * (a.sf - 2 * DE)) * (a.cr + 4), 0)

\* inner of calcAirtime: 8 * payloadBytes - 4 * sf + 28 + 16 * CRC - 20 * IH.
PayloadBits(a) ==
  LET IH  == ImplicitHeader(a)
      CRC == IF a.crc THEN 1 ELSE 0
  IN  8 * a.payloadBytes - 4 * a.sf + 28 + 16 * CRC - 20 * IH

\* The divisor written without its parentheses: 4 * sf - 2 * DE.
PayloadDivisor_NoParens(a) ==
  LET DE == IF a.lowDROptimize THEN 1 ELSE 0
  IN  4 * a.sf - 2 * DE

\* The divisor of inner: 4 * (sf - 2 * DE).
PayloadDivisor(a) ==
  LET DE == IF a.lowDROptimize THEN 1 ELSE 0
  IN  4 * (a.sf - 2 * DE)

\* payload_sym_nb of calcAirtime.
PayloadSymNb(a) ==
  8 + Max(Ceil(PayloadBits(a), PayloadDivisor(a)) * (a.cr + 4), 0)

\* A quarter of t_sym = 2^sf / bw * 1000 ms (bw in Hz), in ticks:
\* 2^sf * 1000 / bw / 4 / 0.032  =  2^(sf-6) * 500000 / bw.
QuarterSym(a) == Pow2(a.sf - 6) * (500000 \div a.bw)

\* calcAirtime returning t_preamble - t_payload.
calcAirtime_Minus(a) ==
  LET t_preamble == (4 * a.preamble + 17) * QuarterSym(a)
      t_payload  == 4 * PayloadSymNb(a) * QuarterSym(a)
  IN  t_preamble - t_payload

\* calcAirtime with a preamble of preamble + 4 symbols (the quarter symbol
\* of 4.25 dropped).
calcAirtime_Preamble4(a) ==
  LET t_preamble == (4 * a.preamble + 16) * QuarterSym(a)
      t_payload  == 4 * PayloadSymNb(a) * QuarterSym(a)
  IN  t_preamble + t_payload

\* calcAirtime: t_preamble + t_payload, in ticks.
\* (preamble + 4.25) * t_sym = (4 * preamble + 17) quarter symbols.
calcAirtime(a) ==
  LET t_preamble == (4 * a.preamble + 17) * QuarterSym(a)
      t_payload  == 4 * PayloadSymNb(a) * QuarterSym(a)
  IN  t_preamble + t_payload

----------------------------------------------------------------------------
(* Tables *)

TX_CURRENT == [p \in {2, 5, 8, 11, 14, 17, 20} |->
                 CASE p = 2 -> 13 [] p = 5 -> 17 [] p = 8 -> 22 [] p = 11 -> 26
                   [] p = 14 -> 31 [] p = 17 -> 87 [] p = 20 -> 120]

TX_POWER_OPTIONS == {2, 5, 8, 11, 14, 17, 20}

PresetNames == {"heartbeat", "status", "detection", "ping", "custom"}

PRESETS == [k \in PresetNames |->
  [sf |-> 12, bw |-> 125, cr |-> 2, txPower_eu |-> 14, txPower_us |-> 20,
   payload |-> CASE k = "heartbeat" -> 12 [] k = "status" -> 24
                 [] k = "detection" -> 8 [] k = "ping" -> 6 [] k = "custom" -> 12]]

EuBandIds == {"g", "g1", "g2", "g3"}

\* EU_BANDS[id].duty, percent.
EU_BANDS == [b \in EuBandIds |->
  CASE b = "g" -> Frac(1, 1) [] b = "g1" -> Frac(1, 1)
    [] b = "g2" -> Frac(1, 10) [] b = "g3" -> Frac(10, 1)]

----------------------------------------------------------------------------
(* The component body: everything derived from the state on one render *)

\* The React state as one record.
State == [region |-> region, preset |-> preset, sf |-> sf, bw |-> bw,
          payload |-> payload, cr |-> cr, preamble |-> preamble, crc |-> crc,
          explicitHeader |-> explicitHeader, txPower |-> txPower,
          voltage |-> voltage, txIntervalMin |-> txIntervalMin,
          euBand |-> euBand, battCapacity |-> battCapacity,
          ldrManual |-> ldrManual]

\* ldrRequired with the bandwidth taken in Hz.
ldrRequired_Hz(s) == Pow2(s.sf) > 16 * s.bw * 1000

\* tSym_ms = 2^sf / bw (bw in kHz) > 16.
ldrRequired(s) == Pow2(s.sf) > 16 * s.bw

ldrOptimize(s) == ldrRequired(s) \/ s.ldrManual

\* The argument object of the calcAirtime call.
AirtimeArgs(s) ==
  [sf |-> s.sf, bw |-> s.bw * 1000, preamble |-> s.preamble,
   payloadBytes |-> s.payload, cr |-> s.cr, crc |-> s.crc,
   explicitHeader |-> s.explicitHeader, lowDROptimize |-> ldrOptimize(s)]

\* airtime, in ticks.
airtime(s) == calcAirtime(AirtimeArgs(s))

\* A duration in ticks as a fraction of milliseconds.
InMs(t) == Frac(4 * t, 125)

\* current_mA falling back to 0 for a power off the table.
current_mA_ZeroFallback(s) ==
  IF s.txPower \in DOMAIN TX_CURRENT THEN TX_CURRENT[s.txPower] ELSE 0

\* TX_CURRENT[txPower] ?? 31
current_mA(s) == IF s.txPower \in DOMAIN TX_CURRENT THEN TX_CURRENT[s.txPower] ELSE 31

\* The constants below are those of the component body that depend on the
\* airtime; t is the value of `airtime` (ticks) they are computed from.

\* (current_mA / 1000) * voltage * (airtime / 1000) * 1000
energy_mJ(s, t) ==
  FMul(FMul(Frac(current_mA(s), 1000), Frac(s.voltage, 10)), InMs(t))

\* (current_mA * (airtime / 1000)) / 3.6
energy_uAh(s, t) == FMul(Frac(current_mA(s), 3600), InMs(t))

\* euBandObj?.duty ?? 1
duty_limit(s) == IF s.euBand \in DOMAIN EU_BANDS THEN EU_BANDS[s.euBand] ELSE Frac(1, 1)

\* (airtime / 3_600_000) * 100
duty_used_per_tx(t) == FMul(InMs(t), Frac(1, 36000))

\* tx_per_hour without the guard: 60 / 0 is 1/0.
tx_per_hour_NoGuard(s) == Frac(120, s.txIntervalMin)

\* txIntervalMin > 0 ? 60 / txIntervalMin : 0, for an interval of m minutes
\* given as a fraction.
tx_per_hour_at(m) == IF m.n > 0 THEN FDiv(Frac(60, 1), m) ELSE Zero

\* txIntervalMin > 0 ? 60 / txIntervalMin : 0   (txIntervalMin in half minutes)
tx_per_hour(s) == tx_per_hour_at(Frac(s.txIntervalMin, 2))

duty_used_per_hour(s, t) == FMul(duty_used_per_tx(t), tx_per_hour(s))

duty_pct_of_limit(s, t) == FMul(FDiv(duty_used_per_hour(s, t), duty_limit(s)), Frac(100, 1))

\* max_tx_per_hour rounding up instead of down.
max_tx_per_hour_Ceil(s, t) ==
  LET q == FDiv(FMul(duty_limit(s), Frac(36000, 1)), InMs(t))
  IN  Ceil(q.n, q.d)

\* Math.floor((duty_limit / 100 * 3_600_000) / airtime)
max_tx_per_hour(s, t) ==
  LET q == FDiv(FMul(duty_limit(s), Frac(36000, 1)), InMs(t))
  IN  Floor(q.n, q.d)

\* airtime / (duty_limit / 100) / 1000
\* min_interval_s dividing by duty_limit instead of duty_limit / 100.
min_interval_s_NoPercent(s, t) == FDiv(InMs(t), FMul(duty_limit(s), Frac(1000, 1)))

min_interval_s(s, t) == FDiv(InMs(t), FMul(duty_limit(s), Frac(10, 1)))

rearm_g_s(t)  == FMul(InMs(t), Frac(1, 10))
\* rearm_g3_s computed with band g's 1 % instead of 10 %.
rearm_g3_s_OnePercent(t) == FMul(InMs(t), Frac(1, 10))

rearm_g3_s(t) == FMul(InMs(t), Frac(1, 100))

us_dwell_ok(t) == t <= Ms(400)

\* (energy_uAh / 1000) * tx_per_hour * 24
tx_energy_per_day_mAh(s, t) ==
  FMul(FMul(energy_uAh(s, t), Frac(1, 1000)), FMul(tx_per_hour(s), Frac(24, 1)))

\* battCapacity / tx_energy_per_day_mAh when the daily draw is positive, else
\* JavaScript's Infinity.  The quotient is kept as its two operands.
Infinity == [finite |-> FALSE]

batt_days(s, t) ==
  LET per_day == tx_energy_per_day_mAh(s, t)
  IN  IF per_day.n > 0
      THEN [finite |-> TRUE, capacity |-> s.battCapacity, per_day |-> per_day]
      ELSE Infinity

euCompliant(s, t) == FLe(duty_used_per_hour(s, t), duty_limit(s))

\* compliant requiring both regions' checks.
compliant_Both(s, t) == euCompliant(s, t) /\ us_dwell_ok(t)

compliant(s, t) == IF s.region = "eu" THEN euCompliant(s, t) ELSE us_dwell_ok(t)

\* One pushed warning; label is the code's label string.
Warn(level, label) == [level |-> level, label |-> label]

\* if (cond) warnings.push(w)
When(cond, w) == IF cond THEN <<w>> ELSE <<>>

W1(s) == When(s.region = "eu" /\ s.bw = 500 /\ s.euBand = "g3",
              Warn("error", "BW + Sub-band"))
W2(s) == When(s.region = "eu" /\ s.bw = 250 /\ s.euBand = "g3",
              Warn("caution", "BW250 + g3"))
\* W3 without the region test.
W3_AnyRegion(s) == When(s.txPower > 14, Warn("error", "TX Power (EU)"))

W3(s) == When(s.region = "eu" /\ s.txPower > 14,
              Warn("error", "TX Power (EU)"))
W4(s) == When(s.txPower = 20,
              Warn("caution", "+20 dBm duty limit"))
\* W5 with the dwell test inverted.
W5_Inverted(s, t) == When(s.region = "us" /\ us_dwell_ok(t),
                          Warn("error", "US Dwell Time"))

W5(s, t) == When(s.region = "us" /\ ~us_dwell_ok(t),
              Warn("error", "US Dwell Time"))
W6(s) == When(s.region = "eu" /\ s.euBand = "g2",
              Warn("caution", "g2 sub-band"))
W7(s) == When(s.preamble < 8,
              Warn("caution", "Preamble symbols"))
\* W8 pushed only when the BW + sub-band error was not.
W8_UnlessW1(s) == When(s.sf = 6 /\ s.explicitHeader /\ W1(s) = << >>,
                       Warn("error", "SF6 + Explicit Header"))

W8(s) == When(s.sf = 6 /\ s.explicitHeader,
              Warn("error", "SF6 + Explicit Header"))

\* The warnings array with the +20 dBm caution pushed before the EU power error.
warnings_W4First(s, t) ==
  W1(s) \o W2(s) \o W4(s) \o W3(s) \o W5(s, t) \o W6(s) \o W7(s) \o W8(s)

\* The warnings array after the eight pushes.
warnings(s, t) ==
  W1(s) \o W2(s) \o W3(s) \o W4(s) \o W5(s, t) \o W6(s) \o W7(s) \o W8(s)

\* hasErrors as warnings.length > 0.
hasErrors_AnyWarning(ws) == ws # << >>

\* warnings.some(w => w.level === "error") and ... "caution"
hasErrors(ws)   == \E i \in DOMAIN ws : ws[i].level = "error"
hasCautions(ws) == \E i \in DOMAIN ws : ws[i].level = "caution"

\* What one run of the component body computes.
Render(s) ==
  LET t  == airtime(s)
      ws == warnings(s, t)
  IN  [rendered |-> TRUE,
       ldrRequired |-> ldrRequired(s), ldrOptimize |-> ldrOptimize(s),
       airtime |-> t, current_mA |-> current_mA(s),
       energy_mJ |-> energy_mJ(s, t), energy_uAh |-> energy_uAh(s, t),
       duty_limit |-> duty_limit(s), duty_used_per_tx |-> duty_used_per_tx(t),
       tx_per_hour |-> tx_per_hour(s), duty_used_per_hour |-> duty_used_per_hour(s, t),
       duty_pct_of_limit |-> duty_pct_of_limit(s, t),
       max_tx_per_hour |-> max_tx_per_hour(s, t), min_interval_s |-> min_interval_s(s, t),
       rearm_g_s |-> rearm_g_s(t), rearm_g3_s |-> rearm_g3_s(t),
       us_dwell_ok |-> us_dwell_ok(t),
       tx_energy_per_day_mAh |-> tx_energy_per_day_mAh(s, t),
       batt_days |-> batt_days(s, t),
       euCompliant |-> euCompliant(s, t), compliant |-> compliant(s, t),
       warnings |-> ws, hasErrors |-> hasErrors(ws), hasCautions |-> hasCautions(ws)]

\* Before the first render.
NotRendered == [rendered |-> FALSE]

----------------------------------------------------------------------------
(* Bounds of the model and the input sets *)

\* Payloads 1..MaxPayload are drawn for the airtime formula.
MaxPayload == 12
\* Preambles 6..MaxPreamble are drawn and typed.
MaxPreamble == 8
\* TX powers 0..MaxTxPower are drawn for the current lookup.
MaxTxPower == 21
\* User actions per run of the component.
MaxEdits == 3

SfOptions == 6..12
BwOptions == {125, 250, 500}
CrOptions == 1..4
Regions   == {"eu", "us"}
PreambleInputs == 6..MaxPreamble
\* Typed payloads: the smallest one and the one of the 400 ms dwell scenario.
PayloadEdits == {1, 51}
\* Slider positions in half minutes: 0.5 min (its minimum) and 15 min (the default).
IntervalEdits == {1, 30}
\* Tenths of a volt.
VoltageEdits == {33, 37}
CapacityEdits == {1000, 2000}

----------------------------------------------------------------------------
(* The mounted component: handlers and effects *)

VARIABLE edits

allVars == <<vars, edits>>

Rerender == view' = Render(State')

\* State after the first render and its effects (both leave the useState
\* defaults as they are: the heartbeat preset equals the defaults, ldrManual
\* is already false).
Init ==
  /\ region = "eu" /\ preset = "heartbeat"
  /\ sf = 12 /\ bw = 125 /\ payload = 12 /\ cr = 2 /\ preamble = 8
  /\ crc = TRUE /\ explicitHeader = TRUE /\ txPower = 14
  /\ voltage = 37 /\ txIntervalMin = 30 /\ euBand = "g"
  /\ battCapacity = 2000 /\ ldrManual = FALSE
  /\ depPreset = "heartbeat" /\ depRegion = "eu" /\ depLdrRequired = TRUE
  /\ view = Render(State)
  /\ edits = 0

\* An effect whose dependencies changed in the last render has not run yet.
PresetEffectPending == depPreset # preset \/ depRegion # region
\* The LDRO effect with an empty dependency array: run on mount only.
LdrEffectPending_MountOnly == FALSE

LdrEffectPending    == depLdrRequired # view.ldrRequired
EffectsPending      == PresetEffectPending \/ LdrEffectPending

\* The preset effect without its early return for "custom".
PresetApplies_NoCustomGuard == PresetEffectPending

\* The preset effect sets the fields: it runs, and preset is not "custom"
\* (if (preset === "custom") return).
PresetApplies == PresetEffectPending /\ preset # "custom"

\* The LDRO effect with its test inverted: if (!ldrRequired) setLdrManual(false).
LdrEffectClears_WhenNotRequired == LdrEffectPending /\ ~view.ldrRequired

\* The LDRO effect clears the manual flag: it runs, and
\* if (ldrRequired) setLdrManual(false).
LdrEffectClears == LdrEffectPending /\ view.ldrRequired

\* React runs pending effects before it handles the next event.
CanHandle == ~EffectsPending /\ edits < MaxEdits

Handled == edits' = edits + 1 /\ UNCHANGED deps /\ Rerender

\* markCustom leaving the preset as it is.
markCustom_KeepsPreset == preset' = preset

\* markCustom
markCustom == preset' = "custom"

\* region buttons: setRegion(r)
SetRegion(r) ==
  /\ CanHandle /\ r # region
  /\ region' = r
  /\ UNCHANGED <<preset, sf, bw, payload, cr, preamble, crc, explicitHeader, txPower,
                 voltage, txIntervalMin, euBand, battCapacity, ldrManual>>
  /\ Handled

\* preset chips: setPreset(key)
SelectPreset(k) ==
  /\ CanHandle /\ k # preset
  /\ preset' = k
  /\ UNCHANGED <<region, sf, bw, payload, cr, preamble, crc, explicitHeader, txPower,
                 voltage, txIntervalMin, euBand, battCapacity, ldrManual>>
  /\ Handled

ChangeSf(v) ==
  /\ CanHandle /\ v # sf
  /\ sf' = v /\ markCustom
  /\ UNCHANGED <<region, bw, payload, cr, preamble, crc, explicitHeader, txPower,
                 voltage, txIntervalMin, euBand, battCapacity, ldrManual>>
  /\ Handled

ChangeBw(v) ==
  /\ CanHandle /\ v # bw
  /\ bw' = v /\ markCustom
  /\ UNCHANGED <<region, sf, payload, cr, preamble, crc, explicitHeader, txPower,
                 voltage, txIntervalMin, euBand, battCapacity, ldrManual>>
  /\ Handled

ChangeCr(v) ==
  /\ CanHandle /\ v # cr
  /\ cr' = v /\ markCustom
  /\ UNCHANGED <<region, sf, bw, payload, preamble, crc, explicitHeader, txPower,
                 voltage, txIntervalMin, euBand, battCapacity, ldrManual>>
  /\ Handled

ChangePayload(v) ==
  /\ CanHandle /\ v # payload
  /\ payload' = v /\ markCustom
  /\ UNCHANGED <<region, sf, bw, cr, preamble, crc, explicitHeader, txPower,
                 voltage, txIntervalMin, euBand, battCapacity, ldrManual>>
  /\ Handled

ChangePreamble(v) ==
  /\ CanHandle /\ v # preamble
  /\ preamble' = v /\ markCustom
  /\ UNCHANGED <<region, sf, bw, payload, cr, crc, explicitHeader, txPower,
                 voltage, txIntervalMin, euBand, battCapacity, ldrManual>>
  /\ Handled

\* The select offers TX_POWER_OPTIONS.filter(p => region === "us" || p <= 14).
ChangeTxPower(v) ==
  /\ CanHandle /\ v # txPower
  /\ region = "us" \/ v <= 14
  /\ txPower' = v /\ markCustom
  /\ UNCHANGED <<region, sf, bw, payload, cr, preamble, crc, explicitHeader,
                 voltage, txIntervalMin, euBand, battCapacity, ldrManual>>
  /\ Handled

ToggleCrc ==
  /\ CanHandle
  /\ crc' = ~crc /\ markCustom
  /\ UNCHANGED <<region, sf, bw, payload, cr, preamble, explicitHeader, txPower,
                 voltage, txIntervalMin, euBand, battCapacity, ldrManual>>
  /\ Handled

ToggleExplicitHeader ==
  /\ CanHandle
  /\ explicitHeader' = ~explicitHeader /\ markCustom
  /\ UNCHANGED <<region, sf, bw, payload, cr, preamble, crc, txPower,
                 voltage, txIntervalMin, euBand, battCapacity, ldrManual>>
  /\ Handled

\* LDRO button: disabled={ldrRequired}; if (!ldrRequired) { ... }
ToggleLdro ==
  /\ CanHandle
  /\ ~view.ldrRequired
  /\ ldrManual' = ~ldrManual /\ markCustom
  /\ UNCHANGED <<region, sf, bw, payload, cr, preamble, crc, explicitHeader, txPower,
                 voltage, txIntervalMin, euBand, battCapacity>>
  /\ Handled

\* The sub-band select is rendered in region EU only.
ChangeEuBand(b) ==
  /\ CanHandle /\ b # euBand
  /\ region = "eu"
  /\ euBand' = b
  /\ UNCHANGED <<region, preset, sf, bw, payload, cr, preamble, crc, explicitHeader,
                 txPower, voltage, txIntervalMin, battCapacity, ldrManual>>
  /\ Handled

ChangeVoltage(v) ==
  /\ CanHandle /\ v # voltage
  /\ voltage' = v
  /\ UNCHANGED <<region, preset, sf, bw, payload, cr, preamble, crc, explicitHeader,
                 txPower, txIntervalMin, euBand, battCapacity, ldrManual>>
  /\ Handled

ChangeBattCapacity(v) ==
  /\ CanHandle /\ v # battCapacity
  /\ battCapacity' = v
  /\ UNCHANGED <<region, preset, sf, bw, payload, cr, preamble, crc, explicitHeader,
                 txPower, voltage, txIntervalMin, euBand, ldrManual>>
  /\ Handled

ChangeTxInterval(v) ==
  /\ CanHandle /\ v # txIntervalMin
  /\ txIntervalMin' = v
  /\ UNCHANGED <<region, preset, sf, bw, payload, cr, preamble, crc, explicitHeader,
                 txPower, voltage, euBand, battCapacity, ldrManual>>
  /\ Handled

\* One flush of the effects of the last render: the preset effect (deps
\* [preset, region]) and the LDRO effect (deps [ldrRequired]) read the values
\* of that render; their setState calls are batched into the next render.
RunEffects ==
  LET applyPreset == PresetApplies
      p == PRESETS[preset]
  IN  /\ EffectsPending
      /\ sf'      = IF applyPreset THEN p.sf ELSE sf
      /\ bw'      = IF applyPreset THEN p.bw ELSE bw
      /\ payload' = IF applyPreset THEN p.payload ELSE payload
      /\ cr'      = IF applyPreset THEN p.cr ELSE cr
      /\ txPower' = IF applyPreset
                    THEN (IF region = "us" THEN p.txPower_us ELSE p.txPower_eu)
                    ELSE txPower
      /\ ldrManual' = IF LdrEffectClears THEN FALSE ELSE ldrManual
      /\ depPreset' = preset /\ depRegion' = region
      /\ depLdrRequired' = view.ldrRequired
      /\ UNCHANGED <<region, preset, preamble, crc, explicitHeader, voltage,
                     txIntervalMin, euBand, battCapacity, edits>>
      /\ Rerender

Next ==
  \/ \E r \in Regions : SetRegion(r)
  \/ \E k \in PresetNames : SelectPreset(k)
  \/ \E v \in SfOptions : ChangeSf(v)
  \/ \E v \in BwOptions : ChangeBw(v)
  \/ \E v \in CrOptions : ChangeCr(v)
  \/ \E v \in PayloadEdits : ChangePayload(v)
  \/ \E v \in PreambleInputs : ChangePreamble(v)
  \/ \E v \in TX_POWER_OPTIONS : ChangeTxPower(v)
  \/ ToggleCrc
  \/ ToggleExplicitHeader
  \/ ToggleLdro
  \/ \E b \in EuBandIds : ChangeEuBand(b)
  \/ \E v \in VoltageEdits : ChangeVoltage(v)
  \/ \E v \in CapacityEdits : ChangeBattCapacity(v)
  \/ \E v \in IntervalEdits : ChangeTxInterval(v)
  \/ RunEffects

Spec == Init /\ [][Next]_allVars

\* The component after the edits SF 11, 250 kHz and LDRO toggled on, from
\* the defaults: a symbol time of 8.192 ms, LDRO not required, the manual
\* flag set, preset "custom", no effect pending.
LdroStart ==
  [region |-> "eu", preset |-> "custom", sf |-> 11, bw |-> 250,
   payload |-> 12, cr |-> 2, preamble |-> 8, crc |-> TRUE,
   explicitHeader |-> TRUE, txPower |-> 14, voltage |-> 37,
   txIntervalMin |-> 30, euBand |-> "g", battCapacity |-> 2000,
   ldrManual |-> TRUE]

InitLdro ==
  /\ region = LdroStart.region /\ preset = LdroStart.preset
  /\ sf = LdroStart.sf /\ bw = LdroStart.bw /\ payload = LdroStart.payload
  /\ cr = LdroStart.cr /\ preamble = LdroStart.preamble /\ crc = LdroStart.crc
  /\ explicitHeader = LdroStart.explicitHeader /\ txPower = LdroStart.txPower
  /\ voltage = LdroStart.voltage /\ txIntervalMin = LdroStart.txIntervalMin
  /\ euBand = LdroStart.euBand /\ battCapacity = LdroStart.battCapacity
  /\ ldrManual = LdroStart.ldrManual
  /\ depPreset = "custom" /\ depRegion = "eu" /\ depLdrRequired = FALSE
  /\ view = Render(State)
  /\ edits = 0

\* The user interface continued from LdroStart.
LdroSpec == InitLdro /\ [][Next]_allVars

----------------------------------------------------------------------------
(* One computation on a drawn parameter set *)

\* TX intervals drawn: 0 (no scheduled transmission) and the slider positions.
IntervalInputs == {0} \cup IntervalEdits
\* Payloads drawn with the compliance inputs: the presets' and the typed ones.
PayloadInputs == {PRESETS[k].payload : k \in PresetNames} \cup PayloadEdits

\* Every input of calcAirtime drawn; the rest at their defaults.
AirtimeSlice ==
  /\ sf \in SfOptions /\ bw \in BwOptions /\ cr \in CrOptions
  /\ payload \in 1..MaxPayload /\ preamble \in PreambleInputs
  /\ crc \in BOOLEAN /\ explicitHeader \in BOOLEAN /\ ldrManual \in BOOLEAN
  /\ region = "eu" /\ txPower = 14 /\ voltage = 37 /\ txIntervalMin = 30
  /\ euBand = "g" /\ battCapacity = 2000

\* Every input of the compliance branches and of the warning rules drawn.
ComplianceSlice ==
  /\ region \in Regions /\ euBand \in EuBandIds /\ bw \in BwOptions
  /\ txPower \in TX_POWER_OPTIONS /\ sf \in {6, 7, 12}
  /\ payload \in PayloadInputs /\ preamble \in PreambleInputs
  /\ explicitHeader \in BOOLEAN /\ txIntervalMin \in IntervalInputs
  /\ cr = 2 /\ crc = TRUE /\ ldrManual = FALSE /\ voltage = 37 /\ battCapacity = 2000

\* Every input of the energy model drawn, with TX powers on and off the table.
EnergySlice ==
  /\ txPower \in 0..MaxTxPower /\ txIntervalMin \in IntervalInputs
  /\ voltage \in VoltageEdits /\ battCapacity \in CapacityEdits
  /\ region \in Regions /\ sf \in {7, 12}
  /\ bw = 125 /\ payload = 12 /\ cr = 2 /\ preamble = 8
  /\ crc = TRUE /\ explicitHeader = TRUE /\ euBand = "g" /\ ldrManual = FALSE

\* A parameter set before the component body has run on it.
InitCalc ==
  /\ AirtimeSlice \/ ComplianceSlice \/ EnergySlice
  /\ preset = "custom"
  /\ depPreset = preset /\ depRegion = region /\ depLdrRequired = ldrRequired(State)
  /\ view = NotRendered
  /\ edits = 0

\* The component body runs on the parameter set.
Compute ==
  /\ ~view.rendered
  /\ view' = Render(State)
  /\ UNCHANGED <<inputs, deps, edits>>

NextCalc == Compute

CalcSpec == InitCalc /\ [][NextCalc]_allVars

----------------------------------------------------------------------------
(* Properties of one computation (CalcSpec) *)

\* The arguments of the rendered calcAirtime call.
Args == AirtimeArgs(State)

\* C1: for every legal parameter set the airtime is strictly greater than 0,
\* whatever the CRC, header and LDRO flags are (also for the LDRO flag the
\* component would not pass).
C1_AirtimePositive ==
  view.rendered =>
    /\ view.airtime > 0
    /\ \A l \in BOOLEAN : calcAirtime([Args EXCEPT !.lowDROptimize = l]) > 0

\* C1 witness: the smallest payload at SF12 with no CRC and implicit header,
\* where the payload bit count is negative.
C1_Witness ==
  /\ view.rendered /\ payload = 1 /\ sf = 12 /\ ~crc /\ ~explicitHeader
  /\ view.airtime > 0

\* C2: airtime is monotone non-decreasing in payloadBytes, all other
\* arguments of calcAirtime (with the effective LDRO flag) held fixed.
C2_MonotoneInPayload ==
  view.rendered =>
    \A p2 \in (1..MaxPayload) \cup PayloadInputs :
      payload <= p2 =>
        view.airtime <= calcAirtime([Args EXCEPT !.payloadBytes = p2])

\* C2 witness: a payload below MaxPayload whose airtime is strictly smaller
\* than that of a larger payload.
C2_Witness ==
  /\ view.rendered /\ payload < MaxPayload
  /\ view.airtime < calcAirtime([Args EXCEPT !.payloadBytes = MaxPayload])

\* C3: at SF6 the airtime is the same with and without explicit header
\* requested and IH = 1; for SF 7..12 IH = 1 exactly when explicitHeader is
\* false.
C3_Sf6ImplicitHeader ==
  view.rendered =>
    /\ sf = 6 =>
         /\ ImplicitHeader(Args) = 1
         /\ view.airtime = calcAirtime([Args EXCEPT !.explicitHeader = ~explicitHeader])
    /\ sf \in 7..12 => (ImplicitHeader(Args) = 1 <=> ~explicitHeader)

\* C3 witness: SF6 with explicit header requested, at a payload where the
\* header bits would change the airtime at SF7.
C3_Witness ==
  /\ view.rendered /\ sf = 6 /\ explicitHeader
  /\ calcAirtime([Args EXCEPT !.sf = 7])
       # calcAirtime([Args EXCEPT !.sf = 7, !.explicitHeader = FALSE])

\* C4: the LDRO flag passed to calcAirtime is true whenever the symbol
\* duration 2^SF / BW_Hz * 1000 exceeds 16 ms, whatever the manual flag, and
\* equals the manual flag otherwise; it is forced exactly for (SF11, 125 kHz),
\* (SF12, 125 kHz) and (SF12, 250 kHz).
C4_EffectiveLdro ==
  view.rendered =>
    LET forced == <<sf, bw>> \in {<<11, 125>>, <<12, 125>>, <<12, 250>>}
    IN  /\ forced <=> (Pow2(sf) * 1000 > 16 * (bw * 1000))
        /\ forced => Args.lowDROptimize /\ view.ldrOptimize
        /\ ~forced => Args.lowDROptimize = ldrManual /\ view.ldrOptimize = ldrManual
        /\ view.ldrRequired = forced

\* C4 witness: LDRO forced on at SF12 / 250 kHz although the manual flag is off.
C4_Witness ==
  /\ view.rendered /\ sf = 12 /\ bw = 250 /\ ~ldrManual
  /\ view.ldrOptimize

\* The rule table of the warning list: number and level of each label.
RuleLabels == <<"BW + Sub-band", "BW250 + g3", "TX Power (EU)", "+20 dBm duty limit",
                "US Dwell Time", "g2 sub-band", "Preamble symbols",
                "SF6 + Explicit Header">>
RuleLevels == <<"error", "caution", "error", "caution",
                "error", "caution", "caution", "error">>
Rules == DOMAIN RuleLabels

\* Positions of rule k's warning in the rendered list.
RulePositions(k) == {i \in DOMAIN view.warnings : view.warnings[i].label = RuleLabels[k]}

\* Rule k's condition as the rule table states it.
RuleCondition(k) ==
  CASE k = 1 -> region = "eu" /\ bw = 500 /\ euBand = "g3"
    [] k = 2 -> region = "eu" /\ bw = 250 /\ euBand = "g3"
    [] k = 3 -> region = "eu" /\ txPower > 14
    [] k = 4 -> txPower = 20
    [] k = 5 -> region = "us" /\ view.airtime > Ms(400)
    [] k = 6 -> region = "eu" /\ euBand = "g2"
    [] k = 7 -> preamble < 8
    [] k = 8 -> sf = 6 /\ explicitHeader

\* C5: the warning list is a subsequence of the rule order 1..8; at region EU
\* and txPower 20 the rule-3 Error comes before the rule-4 Caution.
C5_WarningOrder ==
  view.rendered =>
    /\ \A i, j \in DOMAIN view.warnings :
         i < j => \E k1, k2 \in Rules :
                    /\ k1 < k2
                    /\ view.warnings[i].label = RuleLabels[k1]
                    /\ view.warnings[j].label = RuleLabels[k2]
    /\ region = "eu" /\ txPower = 20 =>
         \E i \in RulePositions(3), j \in RulePositions(4) :
           /\ i < j
           /\ view.warnings[i].level = "error"
           /\ view.warnings[j].level = "caution"

\* C5 witness: region EU at 20 dBm, where rules 3 and 4 both fire.
C5_Witness ==
  /\ view.rendered /\ region = "eu" /\ txPower = 20
  /\ RulePositions(3) # {} /\ RulePositions(4) # {}

\* C6: every rule's warning is in the list exactly once, with the level of
\* the rule table, iff the rule's own condition holds; so EU + g3 + 500 kHz
\* always gives the rule-1 Error and 20 dBm in US the rule-4 Caution without
\* the rule-3 Error.
C6_RulesIndependent ==
  view.rendered =>
    /\ \A k \in Rules :
         /\ Cardinality(RulePositions(k)) = (IF RuleCondition(k) THEN 1 ELSE 0)
         /\ \A i \in RulePositions(k) : view.warnings[i].level = RuleLevels[k]
    /\ \A i \in DOMAIN view.warnings : \E k \in Rules : i \in RulePositions(k)
    /\ region = "eu" /\ euBand = "g3" /\ bw = 500 =>
         Warn("error", RuleLabels[1]) \in {view.warnings[i] : i \in DOMAIN view.warnings}
    /\ region = "us" /\ txPower = 20 =>
         /\ Warn("caution", RuleLabels[4]) \in {view.warnings[i] : i \in DOMAIN view.warnings}
         /\ RulePositions(3) = {}

\* C6 witness: 20 dBm in region US, where rule 4 fires without rule 3 while
\* rules 7 and 8 fire too.
C6_Witness ==
  /\ view.rendered /\ region = "us" /\ txPower = 20
  /\ RulePositions(3) = {} /\ RulePositions(4) # {}
  /\ RulePositions(7) # {} /\ RulePositions(8) # {}

\* The duty limit of each sub-band, percent (g = 1, g1 = 1, g2 = 0.1, g3 = 10).
DutyLimitPct(b) ==
  CASE b = "g" -> [n |-> 1, d |-> 1] [] b = "g1" -> [n |-> 1, d |-> 1]
    [] b = "g2" -> [n |-> 1, d |-> 10] [] b = "g3" -> [n |-> 10, d |-> 1]

\* C7: compliant is the selected region's verdict only: in EU it is
\* (duty used per hour <= the sub-band's limit) even above 400 ms of airtime;
\* in US it is (airtime <= 400 ms) and no sub-band or TX interval changes it.
C7_CompliantPerRegion ==
  view.rendered =>
    /\ region = "eu" =>
         view.compliant = FLe(view.duty_used_per_hour, DutyLimitPct(euBand))
    /\ region = "us" =>
         /\ view.compliant = (view.airtime <= Ms(400))
         /\ \A b \in EuBandIds, h \in IntervalInputs :
              compliant([State EXCEPT !.euBand = b, !.txIntervalMin = h], view.airtime)
                = view.compliant

\* C7 witness: region EU, compliant although the airtime is above 400 ms.
C7_Witness ==
  /\ view.rendered /\ region = "eu"
  /\ view.airtime > Ms(400) /\ view.compliant

\* C8: us_dwell_ok iff airtime <= 400 ms; the rule-5 Error is in the list iff
\* region US and airtime > 400 ms; at US, SF12, 125 kHz, payload 51,
\* preamble 8 the airtime is above 400 ms for every coding rate, CRC and
\* header setting, us_dwell_ok is false and rule 5 fires.
C8_UsDwell ==
  view.rendered =>
    /\ view.us_dwell_ok = (view.airtime <= Ms(400))
    /\ (RulePositions(5) # {}) = (region = "us" /\ view.airtime > Ms(400))
    /\ region = "us" /\ sf = 12 /\ bw = 125 /\ payload = 51 /\ preamble = 8 =>
         /\ \A c \in CrOptions, k \in BOOLEAN, e \in BOOLEAN :
              calcAirtime([Args EXCEPT !.cr = c, !.crc = k, !.explicitHeader = e])
                > Ms(400)
         /\ ~view.us_dwell_ok
         /\ RulePositions(5) # {}

\* C8 witness: the US scenario of SF12, 125 kHz, payload 51, preamble 8.
C8_Witness ==
  /\ view.rendered /\ region = "us" /\ sf = 12 /\ bw = 125
  /\ payload = 51 /\ preamble = 8
  /\ ~view.us_dwell_ok

\* C9: with txIntervalMinutes = 0, txPerHour = 0, dutyUsedPerHour = 0, the
\* daily charge draw is 0, battery life is +infinity, and in region EU the
\* result is compliant.
C9_ZeroInterval ==
  view.rendered /\ txIntervalMin = 0 =>
    /\ view.tx_per_hour = [n |-> 0, d |-> 1]
    /\ view.duty_used_per_hour = [n |-> 0, d |-> 1]
    /\ view.tx_energy_per_day_mAh = [n |-> 0, d |-> 1]
    /\ view.batt_days = Infinity
    /\ region = "eu" => view.compliant

\* C9 witness: a computation with TX interval 0 in region EU.
C9_Witness ==
  /\ view.rendered /\ txIntervalMin = 0 /\ region = "eu"
  /\ view.batt_days = Infinity

\* C10: the TX current is 13, 17, 22, 26, 31, 87, 120 mA for 2, 5, 8, 11, 14,
\* 17, 20 dBm and 31 mA for every other power; the energy, charge and
\* battery-life formulas always get a defined, positive current.
C10_CurrentLookupTotal ==
  view.rendered =>
    /\ view.current_mA =
         CASE txPower = 2 -> 13 [] txPower = 5 -> 17 [] txPower = 8 -> 22
           [] txPower = 11 -> 26 [] txPower = 14 -> 31 [] txPower = 17 -> 87
           [] txPower = 20 -> 120 [] OTHER -> 31
    /\ view.energy_mJ.n > 0 /\ view.energy_uAh.n > 0
    /\ txIntervalMin > 0 =>
         view.tx_energy_per_day_mAh.n > 0 /\ view.batt_days.finite

\* C10 witness: a power that is no key of the table resolves to 31 mA.
C10_Witness ==
  /\ view.rendered /\ txPower \notin {2, 5, 8, 11, 14, 17, 20}
  /\ view.current_mA = 31

\* maxTxPerHour * minIntervalSeconds of the rendered values, seconds.
TxWindow == FMul(Frac(view.max_tx_per_hour, 1), view.min_interval_s)

\* C11 as stated: in region EU maxTxPerHour * minIntervalSeconds is the
\* 3600 s window up to rounding (taken here as within one second).
C11_AsStated ==
  view.rendered /\ region = "eu" =>
    FLe(Frac(3599, 1), TxWindow) /\ FLe(TxWindow, Frac(3601, 1))

\* C11 amended: in region EU maxTxPerHour * minIntervalSeconds is at most
\* 3600 s and misses it by less than one minIntervalSeconds (the floor of
\* maxTxPerHour drops the fractional transmission).
C11_WindowWithinOneInterval ==
  view.rendered /\ region = "eu" =>
    /\ FLe(TxWindow, Frac(3600, 1))
    /\ ~FLe(FMul(Frac(view.max_tx_per_hour + 1, 1), view.min_interval_s), Frac(3600, 1))

\* C11 witness: an EU computation whose product falls short of 3600 s by more
\* than a second.
C11_Witness ==
  /\ view.rendered /\ region = "eu" /\ view.max_tx_per_hour > 0
  /\ ~FLe(Frac(3599, 1), TxWindow)

\* Duty used per hour when the rendered airtime is sent once every
\* rearm_g3_s seconds (TX interval rearm_g3_s / 60 minutes).
RearmG3Duty ==
  FMul(view.duty_used_per_tx, tx_per_hour_at(FDiv(view.rearm_g3_s, Frac(60, 1))))

\* C12: transmitting once per g3 re-arm time uses exactly 10 % duty per hour,
\* which is band g3's limit: compliant in g3, with no margin left.
C12_RearmRoundTrip ==
  view.rendered =>
    /\ RearmG3Duty = [n |-> 10, d |-> 1]
    /\ FLe(RearmG3Duty, duty_limit([State EXCEPT !.euBand = "g3"]))
    /\ FLe(duty_limit([State EXCEPT !.euBand = "g3"]), RearmG3Duty)

\* C12 witness: a g3 computation in region EU whose re-arm time is longer
\* than a second and whose round trip lands on 10 %.
C12_Witness ==
  /\ view.rendered /\ region = "eu" /\ euBand = "g3"
  /\ ~FLe(view.rearm_g3_s, Frac(1, 1))
  /\ RearmG3Duty = duty_limit(State)

\* The parameter set of Scenario A at a 15 minute TX interval.
ScenarioA ==
  /\ view.rendered
  /\ sf = 12 /\ bw = 125 /\ cr = 2 /\ payload = 12 /\ preamble = 8
  /\ crc /\ explicitHeader
  /\ region = "eu" /\ euBand = "g" /\ txPower = 14 /\ txIntervalMin = 30

\* x lies within tol of centre (fractions).
Within(x, centre, tol) ==
  /\ FLe(Frac(centre.n * tol.d - tol.n * centre.d, centre.d * tol.d), x)
  /\ FLe(x, Frac(centre.n * tol.d + tol.n * centre.d, centre.d * tol.d))

\* C13 as stated: Scenario A has an airtime within 0.5 ms of 452.6 ms and uses
\* about 0.0503 % duty per hour (taken as within 0.001 %), with LDRO in
\* effect, a compliant result and no Error.
C13_AsStated ==
  ScenarioA =>
    /\ Within(InMs(view.airtime), Frac(4526, 10), Frac(1, 2))
    /\ Within(view.duty_used_per_hour, Frac(503, 10000), Frac(1, 1000))
    /\ view.ldrOptimize /\ view.compliant /\ ~view.hasErrors

\* C13 amended: Scenario A has an airtime of 1253.376 ms (within 0.5 ms of
\* 1253.4 ms) and uses 0.139264 % duty per hour (within 0.0001 % of 0.1393 %),
\* with LDRO in effect, a compliant result and no Error.
C13_ScenarioA ==
  ScenarioA =>
    /\ InMs(view.airtime) = Frac(1253376, 1000)
    /\ Within(InMs(view.airtime), Frac(12534, 10), Frac(1, 2))
    /\ view.duty_used_per_hour = Frac(139264, 1000000)
    /\ Within(view.duty_used_per_hour, Frac(1393, 10000), Frac(1, 10000))
    /\ view.ldrOptimize /\ view.compliant /\ ~view.hasErrors

\* C13 witness: Scenario A computed with the manual LDRO flag off, so that
\* the low-data-rate optimisation in effect comes from the symbol time alone.
C13_Witness == ScenarioA /\ ~ldrManual /\ view.ldrRequired /\ view.warnings = <<>>

\* C14 as stated: no parameter set makes rule 1 and rule 8 fire in the same
\* warning list.
C14_AsStated ==
  view.rendered => ~(RulePositions(1) # {} /\ RulePositions(8) # {})

\* C14 amended: rules 1 and 8 read disjoint inputs and fire independently.
\* Rule 1 fires iff region EU, 500 kHz and sub-band g3, whatever SF and the
\* header flag are; rule 8 fires iff SF 6 with explicit header, whatever
\* region, bandwidth and sub-band are; so each fires alone and both together.
C14_Rule1Rule8Independent ==
  view.rendered =>
    /\ RulePositions(1) # {} <=> (region = "eu" /\ bw = 500 /\ euBand = "g3")
    /\ RulePositions(8) # {} <=> (sf = 6 /\ explicitHeader)
    /\ \A sf2 \in SfOptions, eh2 \in BOOLEAN :
         LET s2 == [State EXCEPT !.sf = sf2, !.explicitHeader = eh2]
         IN  /\ W1(s2) = W1(State)
             /\ W8(s2) # << >> <=> (sf2 = 6 /\ eh2)
    /\ \A r2 \in Regions, bw2 \in BwOptions, b2 \in EuBandIds :
         LET s2 == [State EXCEPT !.region = r2, !.bw = bw2, !.euBand = b2]
         IN  /\ W8(s2) = W8(State)
             /\ W1(s2) # << >> <=> (r2 = "eu" /\ bw2 = 500 /\ b2 = "g3")

\* C14 witness: region EU, 500 kHz, sub-band g3, SF 6 with explicit header:
\* both Errors are in the list, rule 1 before rule 8.
C14_Witness ==
  /\ view.rendered
  /\ region = "eu" /\ bw = 500 /\ euBand = "g3" /\ sf = 6 /\ explicitHeader
  /\ \E i \in RulePositions(1), j \in RulePositions(8) : i < j

\* C15: once the pending effects have run, a symbol time above 16 ms
\* (2^sf / bw_kHz > 16) implies that the manual LDRO flag is false; and no
\* step taken while LDRO is auto-required turns the manual flag on, the LDRO
\* toggle being disabled there.
C15_ManualLdroForcedOff ==
  /\ [](~EffectsPending /\ Pow2(sf) > 16 * bw => view.ldrRequired /\ ~ldrManual)
  /\ [][view.ldrRequired /\ ldrManual' => ldrManual]_allVars

\* C15 witness: an edit has raised the symbol time above 16 ms while the
\* manual flag was on; the LDRO effect is pending and clears the flag next.
C15_Witness ==
  /\ LdrEffectPending /\ view.ldrRequired /\ Pow2(sf) > 16 * bw
  /\ ldrManual

\* C16: for every drawn input (SF 6..12, LDRO in effect or not, SF 6 with
\* manual LDRO included) SF - 2*DE >= 4, the divisor is 4*(SF - 2*DE) >= 16,
\* and the payload symbol count is a natural number >= 8, equal to 8 when
\* the payload bit count is zero or negative.
C16_DivisorPositive ==
  view.rendered =>
    LET DE == IF Args.lowDROptimize THEN 1 ELSE 0
    IN  /\ sf - 2 * DE >= 4
        /\ PayloadDivisor(Args) = 4 * (sf - 2 * DE)
        /\ PayloadDivisor(Args) >= 16
        /\ PayloadSymNb(Args) \in Nat
        /\ PayloadSymNb(Args) >= 8
        /\ PayloadBits(Args) <= 0 => PayloadSymNb(Args) = 8

\* C16 witness: SF 6 with manual LDRO on (divisor 16) and a negative payload
\* bit count.
C16_Witness ==
  /\ view.rendered /\ sf = 6 /\ ldrManual /\ ~view.ldrRequired
  /\ PayloadDivisor(Args) = 16
  /\ PayloadBits(Args) < 0
  /\ view.airtime > 0

ErrorRules   == {1, 3, 5, 8}
CautionRules == {2, 4, 6, 7}

\* C17: hasErrors holds iff one of the Error rules 1, 3, 5, 8 fired and
\* hasCautions iff one of the Caution rules 2, 4, 6, 7 fired; in region US a
\* result that is not compliant always has an Error. (In region EU it need
\* not: see the witness.)
C17_ErrorsAndCautions ==
  view.rendered =>
    /\ view.hasErrors   <=> \E k \in ErrorRules   : RulePositions(k) # {}
    /\ view.hasCautions <=> \E k \in CautionRules : RulePositions(k) # {}
    /\ region = "us" /\ ~view.compliant => view.hasErrors

\* C17 witness: region EU, duty used per hour above the sub-band limit, not
\* compliant, and an empty warning list.
C17_Witness ==
  /\ view.rendered /\ region = "eu"
  /\ ~FLe(view.duty_used_per_hour, view.duty_limit)
  /\ ~view.compliant /\ ~view.hasErrors /\ ~view.hasCautions
  /\ view.warnings = << >>

\* Duty used per hour when the rendered airtime is sent n times per hour
\* (TX interval 60 / n minutes).
DutyAtRate(n) == FMul(view.duty_used_per_tx, tx_per_hour_at(Frac(60, n)))

\* C18: in region EU, for every sub-band and TX interval > 0, compliant holds
\* iff txIntervalMin * 60 s >= minIntervalSeconds; and maxTxPerHour
\* transmissions per hour stay within the sub-band limit while
\* maxTxPerHour + 1 exceed it.
C18_CompliantIffMinInterval ==
  view.rendered /\ region = "eu" /\ txIntervalMin > 0 =>
    /\ view.compliant <=> FLe(view.min_interval_s, Frac(txIntervalMin * 30, 1))
    /\ FLe(DutyAtRate(view.max_tx_per_hour), view.duty_limit)
    /\ ~FLe(DutyAtRate(view.max_tx_per_hour + 1), view.duty_limit)

\* C18 witness: region EU with a TX interval above zero but below the minimum
\* interval: not compliant, although at least one transmission per hour fits.
C18_Witness ==
  /\ view.rendered /\ region = "eu" /\ txIntervalMin > 0
  /\ ~FLe(view.min_interval_s, Frac(txIntervalMin * 30, 1))
  /\ ~view.compliant
  /\ view.max_tx_per_hour > 0

\* The fields a preset sets hold the values of preset k for the region.
MatchesPreset(k) ==
  /\ sf = PRESETS[k].sf /\ bw = PRESETS[k].bw
  /\ payload = PRESETS[k].payload /\ cr = PRESETS[k].cr
  /\ txPower = (IF region = "us" THEN PRESETS[k].txPower_us ELSE PRESETS[k].txPower_eu)

\* C19: once the pending effects have run, a preset other than "custom"
\* means that sf, bw, payload and cr hold that preset's values and txPower
\* the preset's power for the region, so the rule-3 Error is not in the list;
\* and every handler step that changes sf, bw, cr, payload, preamble, txPower,
\* CRC, explicit header or manual LDRO sets the preset to "custom".
C19_PresetConsistency ==
  /\ [](~EffectsPending /\ preset # "custom" =>
          MatchesPreset(preset) /\ RulePositions(3) = {})
  /\ [][~EffectsPending
          /\ <<sf, bw, cr, payload, preamble, txPower, crc, explicitHeader, ldrManual>>' #
             <<sf, bw, cr, payload, preamble, txPower, crc, explicitHeader, ldrManual>>
        => preset' = "custom"]_allVars

\* C19 witness: a preset other than the initial one, selected and applied in
\* region US, where its power is 20 dBm.
C19_Witness ==
  /\ ~EffectsPending /\ region = "us"
  /\ preset \notin {"custom", "heartbeat"}
  /\ payload # PRESETS["heartbeat"].payload
  /\ MatchesPreset(preset) /\ txPower = 20

\* Rule k's warning is in the list ws.
Fired(ws, k) == \E i \in DOMAIN ws : ws[i] = Warn(RuleLevels[k], RuleLabels[k])

\* C20: with preset "custom", the region switch and the effect flush that
\* follows it change no input but the region; so a switch to EU at 17 or
\* 20 dBm renders the rule-3 Error, and at 20 dBm the rule-4 Caution too.
C20_RegionSwitchCustom ==
  [][preset = "custom" /\ (region' # region \/ depRegion # region) =>
       /\ UNCHANGED <<preset, sf, bw, payload, cr, preamble, crc, explicitHeader,
                      txPower, voltage, txIntervalMin, euBand, battCapacity, ldrManual>>
       /\ region' = "eu" /\ txPower \in {17, 20} =>
            /\ txPower' > 14
            /\ Fired(view'.warnings, 3)
            /\ txPower = 20 => Fired(view'.warnings, 4)]_allVars

\* C20 witness: region EU at 20 dBm with preset "custom" and no effect
\* pending, a power region EU does not offer: the state left by a switch
\* from US. The rule-3 Error and the rule-4 Caution are in the list.
C20_Witness ==
  /\ ~EffectsPending /\ preset = "custom"
  /\ region = "eu" /\ txPower = 20
  /\ Fired(view.warnings, 3) /\ Fired(view.warnings, 4)

\* C21: the manual LDRO preference does not survive a pass through an
\* auto-required configuration. With no effect pending, LDRO required means
\* the manual flag is off; a step that takes a required configuration to one
\* with a symbol time of at most 16 ms leaves the flag off and LDRO not in
\* effect; and the flag is turned on by the toggle alone, never by an effect
\* flush or an SF, bandwidth or preset change.
C21_ManualLdroNotRestored ==
  /\ [](~EffectsPending /\ view.ldrRequired => ~ldrManual)
  /\ [][view.ldrRequired /\ ~view'.ldrRequired =>
          /\ Pow2(sf') <= 16 * bw'
          /\ ~ldrManual' /\ ~view'.ldrOptimize]_allVars
  /\ [][~ldrManual /\ ldrManual' =>
          /\ ~EffectsPending /\ ~view.ldrRequired
          /\ sf' = sf /\ bw' = bw /\ preset' = "custom"]_allVars

\* C21 witness: two edits after LdroStart every input is as it was there
\* except the manual flag, which is off, and LDRO is not in effect. Edits
\* change the input they are about, so the two edits were SF or bandwidth
\* raised into the required range and set back, with the effect in between.
C21_Witness ==
  /\ edits = 2 /\ ~EffectsPending
  /\ State = [LdroStart EXCEPT !.ldrManual = FALSE]
  /\ ~view.ldrRequired /\ ~view.ldrOptimize

====
